---- MODULE Spec2Model ----
(***************************************************************************)
(* State-machine model of the fx-trading-web client.                       *)
(*                                                                         *)
(*  - Spec      : the ProTraderGold page (src/unnamed/part_001, 56-942):   *)
(*                two polled sources (analysis, trade-status), the         *)
(*                enter/exit mutations, the entry dialog and the render     *)
(*                guards that decide which buttons the operator can press. *)
(*  - SpecDash  : the dashboard Home page (src/unnamed/part_003, 17-88):   *)
(*                loadScores / fetchPairData for three instruments.        *)
(*                                                                         *)
(* JavaScript runs each handler continuation to its next await in one      *)
(* step, so one action here is one such continuation: a timer tick, a      *)
(* click, or the arrival of a response together with every setState and    *)
(* every fetch the continuation then issues.                               *)
(***************************************************************************)
EXTENDS Integers, Sequences, FiniteSets, TLC

(* ---------- bounds of the model ---------- *)
\* HTTP requests of the page that may be outstanding at once
MaxOutstanding == 3
\* loadScores() calls of the dashboard that may be outstanding at once
MaxLoads == 2
\* longest TradeStatus.alerts list given to the alert block
MaxAlerts == 3
\* largest total_score given to the confluence card
MaxScore == 12
\* longest confluences list and longest setup_steps list given to the setup plan
MaxConfluences == 2
MaxSteps == 2

(* ---------- values ---------- *)
\* current_price values, in tenths of a cent (4000120 is $4000.120)
Prices == {4000120, 4000124}

\* whether the analysis taken at price p offers the early entry (its in_progress
\* step has entry_timing.early_entry.available)
EarlyAt(p) == p = 4000124

\* position_size values of the backend's TradeStatus (spec section 3)
Sizes == {0, 50, 100}

\* messages of a failed fetch: `HTTP ${response.status}` or the TypeError text
FetchErrors == {"HTTP 500", "Failed to fetch"}

\* error texts a backend may put in {success: false, error}
BackendErrors == {"Market closed", "No open trade"}

\* a request as it leaves the page: the endpoint and, for a POST, the body fields
\* the model follows (info is reason or trade_direction)
Get(url) == [url |-> url, position_size |-> 0, price |-> 0, info |-> ""]

Post(url, size, price, info) == [url |-> url, position_size |-> size, price |-> price, info |-> info]

\* no alert() or confirm() box in this step
NoDialog == <<>>

\* Number.prototype.toFixed(2) on a price in tenths of a cent: the price in
\* cents, rounded half up
ToFixed2(p) == (p + 5) \div 10

\* total_score of the analysis for direction d: the bullish setup is above the
\* "5 points minimum" of the card, the bearish one below it
ScoreOf(d) == IF d = "bullish" THEN 7 ELSE 4

NullSetup == [nil |-> TRUE, dir |-> "none", current_price |-> 0, early |-> FALSE, total_score |-> 0]

MkSetup(d, p, e) ==
    [nil |-> FALSE, dir |-> d, current_price |-> p, early |-> e, total_score |-> ScoreOf(d)]

NullStatus == [nil |-> TRUE, in_trade |-> FALSE, position_size |-> 0]

\* TradeStatus payloads: position_size > 0 <=> in_trade
StatusPayloads == {[nil |-> FALSE, in_trade |-> (s > 0), position_size |-> s] : s \in Sizes}

\* /analysis payloads: {bullish, bearish}, or a single setup object
\* (then data.bullish and data.bearish are both undefined)
AnalysisPayloads ==
    {[bullish |-> MkSetup("bullish", p, EarlyAt(p)), bearish |-> MkSetup("bearish", p, EarlyAt(p))] :
        p \in Prices}
    \cup {[bullish |-> NullSetup, bearish |-> NullSetup]}

NullForm == [nil |-> TRUE, position_size |-> 0, origin |-> "none"]

VARIABLES
    \* ProTraderGold useState
    setupData, bullishData, bearishData, selectedTrader, tradeStatus,
    loading, error, showEnterTradeModal, entryFormData,
    \* requests in flight, in dispatch order; of an enter/exit POST the page
    \* reads back only which handler awaits it
    setupReqs, statusReqs, mutReqs,
    \* the last step: which continuation ran, the requests it dispatched,
    \* and the alert() / confirm() box it put before the operator
    lastEvent, sent, dialog,
    \* dashboard Home: useState scores; the loadScores() calls in flight, each the
    \* set of pairs whose fetchPairData has returned; and the pairs whose fetch
    \* failed in the load the last step applied
    scores, loadReqs, dashFailed,
    \* whether the ProTraderGold component is mounted (its interval is running)
    mounted,
    \* what the alert list and the confluence card were last given to render, and
    \* what they put on screen
    alertsIn, alertsShown, cardIn, cardShown,
    \* the Setup fields the setup plan and the trade plan were last given to
    \* render, and what they put on screen
    planIn, planShown

proVars == <<mounted, setupData, bullishData, bearishData, selectedTrader, tradeStatus,
             loading, error, showEnterTradeModal, entryFormData,
             setupReqs, statusReqs, mutReqs, lastEvent, sent, dialog>>

dashVars == <<scores, loadReqs, dashFailed>>

renderVars == <<alertsIn, alertsShown, cardIn, cardShown, planIn, planShown>>

vars == <<proVars, dashVars, renderVars>>

(* ---------- sequences of requests ---------- *)
RemoveAt(s, i) == SubSeq(s, 1, i - 1) \o SubSeq(s, i + 1, Len(s))

\* request i's response was applied: every request dispatched before it is now stale
Supersede(s, i) ==
    RemoveAt([j \in DOMAIN s |-> IF j < i THEN [s[j] EXCEPT !.stale = TRUE] ELSE s[j]], i)

(* ---------- ProTraderGold: render guards ---------- *)
\* an unmounted component renders nothing
View ==
    IF ~mounted THEN "none"
    ELSE IF loading THEN "loading"
    ELSE IF error # "" \/ setupData.nil THEN "error"
    ELSE "main"

inTrade == ~tradeStatus.nil /\ tradeStatus.in_trade

SelectorVisible == View = "main" /\ ~inTrade /\ ~bullishData.nil /\ ~bearishData.nil

MonitoringVisible == View = "main" /\ inTrade /\ ~tradeStatus.nil

AddMoreVisible == MonitoringVisible /\ tradeStatus.position_size = 50

Exit50Visible == MonitoringVisible /\ tradeStatus.position_size = 100

CloseVisible == MonitoringVisible

\* the "I TOOK THE TRADE" button of an in_progress step whose early entry is available
EarlyEntryVisible == View = "main" /\ ~inTrade /\ setupData.early

ModalVisible == View = "main" /\ showEnterTradeModal /\ ~entryFormData.nil

\* the position the operator sees mirrored when a request is submitted
MirrorSize == IF tradeStatus.nil THEN 0 ELSE tradeStatus.position_size

\* useEffect on [selectedTrader, bullishData, bearishData]
SyncSetupData(b, br, sel, cur) ==
    IF ~b.nil /\ ~br.nil THEN (IF sel = "bullish" THEN b ELSE br) ELSE cur

\* requests outstanding, and room for n more
Outstanding == Len(setupReqs) + Len(statusReqs) + Len(mutReqs)

Room(n) == Outstanding + n <= MaxOutstanding

(* ---------- ProTraderGold: polling ---------- *)
\* a fetch just dispatched; then is what its caller does once it returns
NewFetch(then) == [stale |-> FALSE, then |-> then]

\* Tick giving up once an analysis fetch has failed
Tick_giveUp ==
    /\ mounted
    /\ error = ""
    /\ Room(2)
    /\ setupReqs' = Append(setupReqs, NewFetch("none"))
    /\ statusReqs' = Append(statusReqs, NewFetch("none"))
    /\ lastEvent' = "tick"
    /\ sent' = <<Get("analysis"), Get("trade-status")>>
    /\ dialog' = NoDialog
    /\ UNCHANGED <<dashVars, renderVars, mounted, setupData, bullishData, bearishData, selectedTrader, tradeStatus,
                   loading, error, showEnterTradeModal, entryFormData, mutReqs>>

\* setInterval callback: fetchSetup(); fetchTradeStatus(); the interval runs
\* from the mount effect until its cleanup calls clearInterval
Tick ==
    /\ mounted
    /\ Room(2)
    /\ setupReqs' = Append(setupReqs, NewFetch("none"))
    /\ statusReqs' = Append(statusReqs, NewFetch("none"))
    /\ lastEvent' = "tick"
    /\ sent' = <<Get("analysis"), Get("trade-status")>>
    /\ dialog' = NoDialog
    /\ UNCHANGED <<dashVars, renderVars, mounted, setupData, bullishData, bearishData, selectedTrader, tradeStatus,
                   loading, error, showEnterTradeModal, entryFormData, mutReqs>>

\* fetchSetupOk putting the selection back to bullish
fetchSetupOk_resetSelection(i, data) ==
    /\ bullishData' = data.bullish
    /\ bearishData' = data.bearish
    /\ selectedTrader' = "bullish"
    /\ setupData' = SyncSetupData(data.bullish, data.bearish, "bullish", setupData)
    /\ error' = ""
    /\ loading' = FALSE
    /\ setupReqs' = Supersede(setupReqs, i)
    /\ lastEvent' = IF setupReqs[i].stale THEN "setup_ok_stale" ELSE "setup_ok"
    /\ sent' = <<>>
    /\ dialog' = NoDialog
    /\ UNCHANGED <<dashVars, renderVars, mounted, tradeStatus, showEnterTradeModal, entryFormData,
                   statusReqs, mutReqs>>

\* fetchSetupOk leaving the error string of an earlier failure in place
fetchSetupOk_keepError(i, data) ==
    /\ bullishData' = data.bullish
    /\ bearishData' = data.bearish
    /\ setupData' = SyncSetupData(data.bullish, data.bearish, selectedTrader, setupData)
    /\ loading' = FALSE
    /\ setupReqs' = Supersede(setupReqs, i)
    /\ lastEvent' = IF setupReqs[i].stale THEN "setup_ok_stale" ELSE "setup_ok"
    /\ sent' = <<>>
    /\ dialog' = NoDialog
    /\ UNCHANGED <<dashVars, renderVars, mounted, selectedTrader, tradeStatus, error,
                   showEnterTradeModal, entryFormData, statusReqs, mutReqs>>

\* fetchSetup, response.ok and JSON parsed
fetchSetupOk(i, data) ==
    /\ bullishData' = data.bullish
    /\ bearishData' = data.bearish
    /\ setupData' = SyncSetupData(data.bullish, data.bearish, selectedTrader, setupData)
    /\ error' = ""
    /\ loading' = FALSE
    /\ setupReqs' = Supersede(setupReqs, i)
    /\ lastEvent' = IF setupReqs[i].stale THEN "setup_ok_stale" ELSE "setup_ok"
    /\ sent' = <<>>
    /\ dialog' = NoDialog
    /\ UNCHANGED <<dashVars, renderVars, mounted, selectedTrader, tradeStatus, showEnterTradeModal, entryFormData,
                   statusReqs, mutReqs>>

\* fetchSetup, the fetch rejected or !response.ok
fetchSetupFail(i, msg) ==
    /\ error' = msg
    /\ loading' = FALSE
    /\ setupReqs' = RemoveAt(setupReqs, i)
    /\ lastEvent' = "setup_failed"
    /\ sent' = <<>>
    /\ dialog' = NoDialog
    /\ UNCHANGED <<dashVars, renderVars, mounted, setupData, bullishData, bearishData, selectedTrader, tradeStatus,
                   showEnterTradeModal, entryFormData, statusReqs, mutReqs>>

SetupResponse ==
    \E i \in DOMAIN setupReqs :
        \/ \E data \in AnalysisPayloads : fetchSetupOk(i, data)
        \/ \E msg \in FetchErrors : fetchSetupFail(i, msg)

\* what runs after `await fetchTradeStatus()` returns: exitTrade goes on to
\* fetchSetup(), enterTrade and the interval callback have nothing left
AfterStatus(r) ==
    IF r.then = "fetchSetup"
    THEN /\ setupReqs' = Append(setupReqs, NewFetch("none"))
         /\ sent' = <<Get("analysis")>>
    ELSE /\ setupReqs' = setupReqs
         /\ sent' = <<>>

\* fetchTradeStatus, response.ok and JSON parsed
fetchTradeStatusOk(i, data) ==
    /\ tradeStatus' = data
    /\ statusReqs' = Supersede(statusReqs, i)
    /\ lastEvent' = IF statusReqs[i].stale THEN "status_ok_stale" ELSE "status_ok"
    /\ AfterStatus(statusReqs[i])
    /\ dialog' = NoDialog
    /\ UNCHANGED <<dashVars, renderVars, mounted, setupData, bullishData, bearishData, selectedTrader, loading, error,
                   showEnterTradeModal, entryFormData, mutReqs>>

\* fetchTradeStatus, the fetch rejected or !response.ok: console.error only
fetchTradeStatusFail(i) ==
    /\ statusReqs' = RemoveAt(statusReqs, i)
    /\ lastEvent' = "status_failed"
    /\ AfterStatus(statusReqs[i])
    /\ dialog' = NoDialog
    /\ UNCHANGED <<dashVars, renderVars, mounted, setupData, bullishData, bearishData, selectedTrader, tradeStatus,
                   loading, error, showEnterTradeModal, entryFormData, mutReqs>>

StatusResponse ==
    \E i \in DOMAIN statusReqs :
        \/ \E data \in StatusPayloads : fetchTradeStatusOk(i, data)
        \/ fetchTradeStatusFail(i)

\* the Retry button of the "Failed to load" screen: onClick={fetchSetup}
ClickRetry ==
    /\ View = "error"
    /\ Room(1)
    /\ setupReqs' = Append(setupReqs, NewFetch("none"))
    /\ lastEvent' = "retry"
    /\ sent' = <<Get("analysis")>>
    /\ dialog' = NoDialog
    /\ UNCHANGED <<dashVars, renderVars, mounted, setupData, bullishData, bearishData, selectedTrader, tradeStatus,
                   loading, error, showEnterTradeModal, entryFormData, statusReqs, mutReqs>>

\* the bullish / bearish trader cards
SelectTrader(d) ==
    /\ SelectorVisible
    /\ selectedTrader' = d
    /\ setupData' = IF d = "bullish" THEN bullishData ELSE bearishData
    /\ lastEvent' = "select"
    /\ sent' = <<>>
    /\ dialog' = NoDialog
    /\ UNCHANGED <<dashVars, renderVars, mounted, bullishData, bearishData, tradeStatus, loading, error,
                   showEnterTradeModal, entryFormData, setupReqs, statusReqs, mutReqs>>

ClickTrader == \E d \in {"bullish", "bearish"} : SelectTrader(d)

(* ---------- ProTraderGold: the entry dialog ---------- *)
\* openEnterTradeModal(entryData); origin records which button built entryData
openEnterTradeModal(size, origin) ==
    /\ entryFormData' = [nil |-> FALSE, position_size |-> size, origin |-> origin]
    /\ showEnterTradeModal' = TRUE
    /\ sent' = <<>>
    /\ dialog' = NoDialog
    /\ UNCHANGED <<dashVars, renderVars, mounted, setupData, bullishData, bearishData, selectedTrader, tradeStatus,
                   loading, error, setupReqs, statusReqs, mutReqs>>

\* "I TOOK THE TRADE (50% Position)"
ClickEarlyEntry ==
    /\ EarlyEntryVisible
    /\ lastEvent' = "open_early"
    /\ openEnterTradeModal(50, "early")

\* "ADD 50% MORE (Confirmation Entry)"
ClickAddMore ==
    /\ AddMoreVisible
    /\ lastEvent' = "open_add"
    /\ openEnterTradeModal(50, "add")

\* the Position Size <select> of the dialog
ChangePositionSize ==
    /\ ModalVisible
    /\ \E s \in {50, 100} :
        entryFormData' = [entryFormData EXCEPT !.position_size = s]
    /\ lastEvent' = "edit_form"
    /\ sent' = <<>>
    /\ dialog' = NoDialog
    /\ UNCHANGED <<dashVars, renderVars, mounted, setupData, bullishData, bearishData, selectedTrader, tradeStatus,
                   loading, error, showEnterTradeModal, setupReqs, statusReqs, mutReqs>>

\* Cancel: setShowEnterTradeModal(false)
CancelModal ==
    /\ ModalVisible
    /\ showEnterTradeModal' = FALSE
    /\ lastEvent' = "cancel"
    /\ sent' = <<>>
    /\ dialog' = NoDialog
    /\ UNCHANGED <<dashVars, renderVars, mounted, setupData, bullishData, bearishData, selectedTrader, tradeStatus,
                   loading, error, entryFormData, setupReqs, statusReqs, mutReqs>>

(* ---------- ProTraderGold: enter-trade ---------- *)
\* EnterRequest sending the early-entry size whatever the dialog's select shows
EnterRequest_earlySize(form) ==
    Post("enter-trade", IF form.origin = "early" THEN 50 ELSE form.position_size, 0, "LONG")

\* the POST of enterTrade: entryData of the Confirm Entry button
EnterRequest(form) == Post("enter-trade", form.position_size, 0, "LONG")

\* Confirm Entry: enterTrade({...entryFormData, trade_direction: "LONG"}), up to the fetch
ConfirmEntry ==
    /\ ModalVisible
    /\ Room(1)
    /\ mutReqs' = Append(mutReqs, "enter")
    /\ lastEvent' = "enter_sent"
    /\ sent' = <<EnterRequest(entryFormData)>>
    /\ dialog' = NoDialog
    /\ UNCHANGED <<dashVars, renderVars, mounted, setupData, bullishData, bearishData, selectedTrader, tradeStatus,
                   loading, error, showEnterTradeModal, entryFormData, setupReqs, statusReqs>>

\* enterTradeOk writing the submitted size into the mirror instead of re-fetching
enterTradeOk_optimistic(i) ==
    /\ showEnterTradeModal' = FALSE
    /\ tradeStatus' = [nil |-> FALSE, in_trade |-> TRUE,
                       position_size |-> entryFormData.position_size]
    /\ mutReqs' = RemoveAt(mutReqs, i)
    /\ lastEvent' = "enter_ok"
    /\ sent' = <<>>
    /\ dialog' = NoDialog
    /\ UNCHANGED <<dashVars, renderVars, mounted, setupData, bullishData, bearishData, selectedTrader,
                   loading, error, entryFormData, setupReqs, statusReqs>>

\* enterTrade, result.success: close the dialog, then fetchTradeStatus()
enterTradeOk(i) ==
    /\ showEnterTradeModal' = FALSE
    /\ statusReqs' = Append(statusReqs, NewFetch("none"))
    /\ mutReqs' = RemoveAt(mutReqs, i)
    /\ lastEvent' = "enter_ok"
    /\ sent' = <<Get("trade-status")>>
    /\ dialog' = NoDialog
    /\ UNCHANGED <<dashVars, renderVars, mounted, setupData, bullishData, bearishData, selectedTrader, tradeStatus,
                   loading, error, entryFormData, setupReqs>>

\* enterTradeRejected with the success branch's refresh also run on rejection
enterTradeRejected_refresh(i, e) ==
    /\ statusReqs' = Append(statusReqs, NewFetch("none"))
    /\ mutReqs' = RemoveAt(mutReqs, i)
    /\ lastEvent' = "enter_rejected"
    /\ sent' = <<Get("trade-status")>>
    /\ dialog' = <<"alert", "Failed to enter trade: ", e>>
    /\ UNCHANGED <<dashVars, renderVars, mounted, setupData, bullishData, bearishData, selectedTrader, tradeStatus,
                   loading, error, showEnterTradeModal, entryFormData, setupReqs>>

\* enterTradeRejected closing the dialog as the success branch does
enterTradeRejected_close(i, e) ==
    /\ showEnterTradeModal' = FALSE
    /\ mutReqs' = RemoveAt(mutReqs, i)
    /\ lastEvent' = "enter_rejected"
    /\ sent' = <<>>
    /\ dialog' = <<"alert", "Failed to enter trade: ", e>>
    /\ UNCHANGED <<dashVars, renderVars, mounted, setupData, bullishData, bearishData, selectedTrader,
                   tradeStatus, loading, error, entryFormData, setupReqs, statusReqs>>

\* enterTrade, success false: alert('Failed to enter trade: ' + result.error)
enterTradeRejected(i, e) ==
    /\ mutReqs' = RemoveAt(mutReqs, i)
    /\ lastEvent' = "enter_rejected"
    /\ sent' = <<>>
    /\ dialog' = <<"alert", "Failed to enter trade: ", e>>
    /\ UNCHANGED <<dashVars, renderVars, mounted, setupData, bullishData, bearishData, selectedTrader, tradeStatus,
                   loading, error, showEnterTradeModal, entryFormData, setupReqs, statusReqs>>

\* enterTrade, the fetch or response.json() threw: alert('Error entering trade: ' + err)
enterTradeError(i, msg) ==
    /\ mutReqs' = RemoveAt(mutReqs, i)
    /\ lastEvent' = "enter_error"
    /\ sent' = <<>>
    /\ dialog' = <<"alert", "Error entering trade: ", msg>>
    /\ UNCHANGED <<dashVars, renderVars, mounted, setupData, bullishData, bearishData, selectedTrader, tradeStatus,
                   loading, error, showEnterTradeModal, entryFormData, setupReqs, statusReqs>>

EnterResponse ==
    \E i \in DOMAIN mutReqs :
        /\ mutReqs[i] = "enter"
        /\ \/ enterTradeOk(i)
           \/ \E e \in BackendErrors : enterTradeRejected(i, e)
           \/ enterTradeError(i, "Failed to fetch")

(* ---------- ProTraderGold: exit-trade ---------- *)
\* the POST of exitTrade
ExitRequest(exitPrice, positionSize, reason) == Post("exit-trade", positionSize, exitPrice, reason)

\* exitTrade with the early return on a declined confirm() left out
exitTrade_noReturn(exitPrice, positionSize, reason, accept) ==
    /\ dialog' = <<"confirm", positionSize, ToFixed2(exitPrice), accept>>
    /\ Room(1)
    /\ mutReqs' = Append(mutReqs, "exit")
    /\ lastEvent' = IF accept THEN "exit_confirmed" ELSE "exit_declined"
    /\ sent' = <<ExitRequest(exitPrice, positionSize, reason)>>
    /\ UNCHANGED <<dashVars, renderVars, mounted, setupData, bullishData, bearishData, selectedTrader, tradeStatus,
                   loading, error, showEnterTradeModal, entryFormData, setupReqs, statusReqs>>

\* exitTrade up to the fetch: confirm(`Exit ${positionSize}% of position at
\* $${exitPrice.toFixed(2)}?`) blocks the page until the operator answers
exitTrade(exitPrice, positionSize, reason, accept) ==
    /\ dialog' = <<"confirm", positionSize, ToFixed2(exitPrice), accept>>
    /\ IF accept
       THEN /\ Room(1)
            /\ mutReqs' = Append(mutReqs, "exit")
            /\ lastEvent' = "exit_confirmed"
            /\ sent' = <<ExitRequest(exitPrice, positionSize, reason)>>
       ELSE /\ mutReqs' = mutReqs
            /\ lastEvent' = "exit_declined"
            /\ sent' = <<>>
    /\ UNCHANGED <<dashVars, renderVars, mounted, setupData, bullishData, bearishData, selectedTrader, tradeStatus,
                   loading, error, showEnterTradeModal, entryFormData, setupReqs, statusReqs>>

\* CloseTradeSize closing only half of a full position
CloseTradeSize_half ==
    IF tradeStatus.position_size = 100 THEN 50 ELSE tradeStatus.position_size

\* the size the Close Trade button passes
CloseTradeSize == tradeStatus.position_size

\* "EXIT 50% (Take Partial Profit)"
ClickExit50 ==
    /\ Exit50Visible
    /\ \E accept \in BOOLEAN :
        exitTrade(setupData.current_price, 50, "Partial profit taking", accept)

\* "EXIT ALL / 50% (Close Trade)"
ClickClose ==
    /\ CloseVisible
    /\ \E accept \in BOOLEAN :
        exitTrade(setupData.current_price, CloseTradeSize, "Manual exit", accept)

\* exitTrade, result.success: alert(message, P&L), fetchTradeStatus(), later fetchSetup()
exitTradeOk(i) ==
    /\ statusReqs' = Append(statusReqs, NewFetch("fetchSetup"))
    /\ mutReqs' = RemoveAt(mutReqs, i)
    /\ lastEvent' = "exit_ok"
    /\ sent' = <<Get("trade-status")>>
    /\ dialog' = <<"alert", "", "result.message, P&L">>
    /\ UNCHANGED <<dashVars, renderVars, mounted, setupData, bullishData, bearishData, selectedTrader, tradeStatus,
                   loading, error, showEnterTradeModal, entryFormData, setupReqs>>

\* exitTrade, success false: the if has no else
exitTradeRejected(i, e) ==
    /\ mutReqs' = RemoveAt(mutReqs, i)
    /\ lastEvent' = "exit_rejected"
    /\ sent' = <<>>
    /\ dialog' = NoDialog
    /\ UNCHANGED <<dashVars, renderVars, mounted, setupData, bullishData, bearishData, selectedTrader, tradeStatus,
                   loading, error, showEnterTradeModal, entryFormData, setupReqs, statusReqs>>

\* exitTrade, the fetch or response.json() threw: alert('Error exiting trade: ' + err)
exitTradeError(i, msg) ==
    /\ mutReqs' = RemoveAt(mutReqs, i)
    /\ lastEvent' = "exit_error"
    /\ sent' = <<>>
    /\ dialog' = <<"alert", "Error exiting trade: ", msg>>
    /\ UNCHANGED <<dashVars, renderVars, mounted, setupData, bullishData, bearishData, selectedTrader, tradeStatus,
                   loading, error, showEnterTradeModal, entryFormData, setupReqs, statusReqs>>

ExitResponse ==
    \E i \in DOMAIN mutReqs :
        /\ mutReqs[i] = "exit"
        /\ \/ exitTradeOk(i)
           \/ \E e \in BackendErrors : exitTradeRejected(i, e)
           \/ exitTradeError(i, "Failed to fetch")

(* ---------- ProTraderGold: the page ---------- *)
\* useState initial values, then the mount effect: fetchSetup(); fetchTradeStatus()
ProInit ==
    /\ mounted = TRUE
    /\ setupData = NullSetup
    /\ bullishData = NullSetup
    /\ bearishData = NullSetup
    /\ selectedTrader = "bullish"
    /\ tradeStatus = NullStatus
    /\ loading = TRUE
    /\ error = ""
    /\ showEnterTradeModal = FALSE
    /\ entryFormData = NullForm
    /\ setupReqs = <<NewFetch("none")>>
    /\ statusReqs = <<NewFetch("none")>>
    /\ mutReqs = <<>>
    /\ lastEvent = "mount"
    /\ sent = <<Get("analysis"), Get("trade-status")>>
    /\ dialog = NoDialog

\* cleanup of the mount effect: clearInterval(interval); requests in flight stay
\* in flight and their continuations still run
Unmount ==
    /\ mounted
    /\ mounted' = FALSE
    /\ lastEvent' = "unmount"
    /\ sent' = <<>>
    /\ dialog' = NoDialog
    /\ UNCHANGED <<dashVars, renderVars, setupData, bullishData, bearishData, selectedTrader,
                   tradeStatus, loading, error, showEnterTradeModal, entryFormData,
                   setupReqs, statusReqs, mutReqs>>

(* ---------- dashboard Home ---------- *)
\* the pairs array of loadScores, by position
Pairs == <<"XAU/USD", "EUR/USD", "GBP/USD">>

PairIds == DOMAIN Pairs

\* useState initial value of scores
InitialScore(pair) ==
    [pair |-> pair, buyScore |-> 0, sellScore |-> 0, price |-> 0, buyStatus |-> "",
     sellStatus |-> "", loading |-> TRUE, error |-> ""]

\* one direction's JSON body; 0 / FALSE also stand for an absent field, which
\* `x?.f || 0` and the truth test of `tradable` read the same way
Body(score, price, tradable) == [total_score |-> score, current_price |-> price, tradable |-> tradable]

\* what the two fetches of fetchPairData come back with: thrown is a rejected
\* fetch or a body that is not JSON; ok is response.ok of both
PairOutcomes ==
    { [thrown |-> FALSE, ok |-> TRUE, bullish |-> Body(7, 4000120, TRUE), bearish |-> Body(4, 4000120, FALSE)],
      [thrown |-> FALSE, ok |-> TRUE, bullish |-> Body(5, 4000124, FALSE), bearish |-> Body(0, 0, FALSE)],
      [thrown |-> FALSE, ok |-> FALSE, bullish |-> Body(0, 0, FALSE), bearish |-> Body(0, 0, FALSE)],
      [thrown |-> TRUE, ok |-> FALSE, bullish |-> Body(0, 0, FALSE), bearish |-> Body(0, 0, FALSE)] }

getStatus(score, tradable) ==
    IF score >= 5 /\ tradable THEN "READY"
    ELSE IF score >= 5 THEN "SETUP"
    ELSE "NO SIGNAL"

\* the PairScore fetchPairData returns
fetchPairData(pair, o) ==
    IF o.thrown
    THEN [pair |-> pair, buyScore |-> 0, sellScore |-> 0, price |-> 0, buyStatus |-> "ERROR",
          sellStatus |-> "ERROR", loading |-> FALSE, error |-> "Failed to load"]
    ELSE [pair |-> pair,
          buyScore |-> o.bullish.total_score,
          sellScore |-> o.bearish.total_score,
          price |-> IF o.bullish.current_price # 0 THEN o.bullish.current_price
                    ELSE o.bearish.current_price,
          buyStatus |-> getStatus(o.bullish.total_score, o.bullish.tradable),
          sellStatus |-> getStatus(o.bearish.total_score, o.bearish.tradable),
          loading |-> FALSE, error |-> ""]

\* setInterval callback: loadScores(), whose Promise.all starts all three fetchPairData
DashTick ==
    /\ Len(loadReqs) < MaxLoads
    /\ loadReqs' = Append(loadReqs, {})
    /\ dashFailed' = {}
    /\ UNCHANGED <<proVars, renderVars, scores>>

\* one fetchPairData of load i returns while others are still out
PairReturns(i, p) ==
    /\ p \notin loadReqs[i]
    /\ loadReqs[i] \cup {p} # PairIds
    /\ loadReqs' = [loadReqs EXCEPT ![i] = @ \cup {p}]
    /\ dashFailed' = {}
    /\ UNCHANGED <<proVars, renderVars, scores>>

\* the last fetchPairData of load i returns: Promise.all resolves, setScores(results)
loadScoresDone(i, p, results) ==
    /\ p \notin loadReqs[i]
    /\ loadReqs[i] \cup {p} = PairIds
    /\ scores' = [q \in PairIds |-> fetchPairData(Pairs[q], results[q])]
    /\ loadReqs' = RemoveAt(loadReqs, i)
    /\ dashFailed' = {q \in PairIds : ~results[q].ok}
    /\ UNCHANGED <<proVars, renderVars>>

DashResponse ==
    \E i \in DOMAIN loadReqs : \E p \in PairIds :
        \/ PairReturns(i, p)
        \/ \E results \in [PairIds -> PairOutcomes] : loadScoresDone(i, p, results)

\* useState initial values, then the mount effect: loadScores()
DashInit ==
    /\ scores = [q \in PairIds |-> InitialScore(Pairs[q])]
    /\ loadReqs = <<{}>>
    /\ dashFailed = {}

\* the dashboard is not the page on screen
DashIdle ==
    /\ scores = [q \in PairIds |-> InitialScore(Pairs[q])]
    /\ loadReqs = <<>>
    /\ dashFailed = {}

\* the ProTraderGold page is not the page on screen
ProIdle ==
    /\ mounted = FALSE
    /\ setupData = NullSetup
    /\ bullishData = NullSetup
    /\ bearishData = NullSetup
    /\ selectedTrader = "bullish"
    /\ tradeStatus = NullStatus
    /\ loading = TRUE
    /\ error = ""
    /\ showEnterTradeModal = FALSE
    /\ entryFormData = NullForm
    /\ setupReqs = <<>>
    /\ statusReqs = <<>>
    /\ mutReqs = <<>>
    /\ lastEvent = "idle"
    /\ sent = <<>>
    /\ dialog = NoDialog

(* ---------- ProTraderGold: the alert block of the monitoring view ---------- *)
AlertPriorities == {"HIGH", "MEDIUM", "LOW"}

AlertTitles == {"Move stop to breakeven", "Price near TP1"}

Alerts == [priority : AlertPriorities, title : AlertTitles]

\* TradeStatus.alerts as the backend may send it: any order of priorities
AlertLists == UNION {[1..n -> Alerts] : n \in 0..MaxAlerts}

\* one alert box: its border colour is picked by priority, its heading is the title
AlertBox(alert) ==
    [colour |-> IF alert.priority = "HIGH" THEN "red"
                ELSE IF alert.priority = "MEDIUM" THEN "yellow"
                ELSE "blue",
     title |-> alert.title]

\* tradeStatus.alerts.map((alert, idx) => <div key={idx} ...>): one box per
\* alert, in the order of the array
DisplayAlerts(alerts) == [i \in DOMAIN alerts |-> AlertBox(alerts[i])]

NoBoxes == [rendered |-> FALSE, boxes |-> <<>>]

RenderAlerts ==
    /\ ~alertsShown.rendered
    /\ alertsShown' = [rendered |-> TRUE, boxes |-> DisplayAlerts(alertsIn)]
    /\ UNCHANGED <<proVars, dashVars, alertsIn, cardIn, cardShown, planIn, planShown>>

AlertsIdle ==
    /\ alertsIn = <<>>
    /\ alertsShown = NoBoxes

(* ---------- ProTraderGold: the confluence card of the setup plan ---------- *)
\* the confidence string of the payload; "" is a payload without one
ConfidenceTexts == {"", "EXTREME", "HIGH", "MODERATE", "LOW"}

Cards == [total_score : 0..MaxScore, confidence : ConfidenceTexts]

\* ScoreTier with the two-star band starting one point early
ScoreTier_shifted(score) ==
    IF score >= 10 THEN "three stars"
    ELSE IF score >= 6 /\ score < 10 THEN "two stars"
    ELSE IF score >= 5 /\ score < 6 THEN "one star"
    ELSE "warning"

\* the star line of the Score Header
ScoreTier(score) ==
    IF score >= 10 THEN "three stars"
    ELSE IF score >= 7 /\ score < 10 THEN "two stars"
    ELSE IF score >= 5 /\ score < 7 THEN "one star"
    ELSE "warning"

\* the colour of the "{total_score} points" line
ScoreColour(score) ==
    IF score >= 10 THEN "yellow"
    ELSE IF score >= 7 THEN "blue"
    ELSE IF score >= 5 THEN "green"
    ELSE "gray"

\* Confidence Badge: {setupData.confidence && <span ...>{setupData.confidence}</span>};
\* includes('EXTREME') / includes('HIGH') pick the colour
ConfidenceBadge(confidence) ==
    [shown |-> confidence # "",
     text |-> confidence,
     colour |-> IF confidence = "" THEN "none"
                ELSE IF confidence = "EXTREME" THEN "yellow"
                ELSE IF confidence = "HIGH" THEN "blue"
                ELSE "green"]

NoCard == [rendered |-> FALSE, stars |-> "none", colour |-> "none", badge |-> ConfidenceBadge("")]

RenderCard ==
    /\ ~cardShown.rendered
    /\ cardShown' = [rendered |-> TRUE,
                     stars |-> ScoreTier(cardIn.total_score),
                     colour |-> ScoreColour(cardIn.total_score),
                     badge |-> ConfidenceBadge(cardIn.confidence)]
    /\ UNCHANGED <<proVars, dashVars, alertsIn, alertsShown, cardIn, planIn, planShown>>

CardIdle ==
    /\ cardIn = [total_score |-> 0, confidence |-> ""]
    /\ cardShown = NoCard

(* ---------- ProTraderGold: the setup plan and the trade plan ---------- *)
\* a string of the payload as parseFloat and toFixed see it: "" / undefined
\* (kind "empty"), a text that is no number (kind "text"), or `$<number>`
\* (kind "dollar") with its value in cents and its digits after the point
Str(kind, cents, places) == [kind |-> kind, cents |-> cents, places |-> places]

EmptyStr == Str("empty", 0, 0)

\* trade_plan.entry_price values: "", "Market", "$0.00", "$2.00", "$2", "$-5.00",
\* and the absolute price "$4005.50"
PipStrings ==
    {EmptyStr, Str("text", 0, 0), Str("dollar", 0, 2), Str("dollar", 200, 2), Str("dollar", 200, 0),
     Str("dollar", 0 - 500, 2), Str("dollar", 400550, 2)}

\* the description of a confluence: absent, a text without a `$` number, or a
\* text whose first `$` number is price (in tenths of a cent)
NoDescription == [present |-> FALSE, priced |-> FALSE, price |-> 0]

PlainDescription == [present |-> TRUE, priced |-> FALSE, price |-> 0]

PricedDescription(price) == [present |-> TRUE, priced |-> TRUE, price |-> price]

\* confluences a payload may carry
Confluences ==
    [type : {"LIQUIDITY_GRAB"},
     description : {NoDescription, PlainDescription, PricedDescription(4000000), PricedDescription(4000125)}]
    \cup [type : {"ORDER_BLOCK"}, description : {PlainDescription, PricedDescription(3990000)}]

ConfluenceLists == UNION {[1..n -> Confluences] : n \in 0..MaxConfluences}

\* setup_steps a payload may carry: entry_timing is absent ("none"), lacks
\* early_entry, lacks confirmation_entry, or has both ("full")
SetupSteps ==
    [status : {"complete"}, entry_timing : {"none"}]
    \cup [status : {"in_progress"},
          entry_timing : {"none", "no early_entry", "no confirmation_entry", "full"}]

StepLists == UNION {[1..n -> SetupSteps] : n \in 0..MaxSteps}

Plans == [confluences : ConfluenceLists, setup_steps : StepLists, entry_price : PipStrings]

\* the index of the first LIQUIDITY_GRAB of the list, 0 when there is none
FindLiquidityGrab(confluences) ==
    LET hits == {i \in DOMAIN confluences : confluences[i].type = "LIQUIDITY_GRAB"}
    IN  IF hits = {} THEN 0 ELSE CHOOSE i \in hits : \A j \in hits : i <= j

\* getLiquidityGrabLevel: null, the price of the first match, or a TypeError
\* when liquidityGrab.description is undefined
getLiquidityGrabLevel(confluences) ==
    LET i == FindLiquidityGrab(confluences)
    IN  IF i = 0 THEN [throws |-> FALSE, null |-> TRUE, price |-> 0]
        ELSE IF ~confluences[i].description.present
             THEN [throws |-> TRUE, null |-> TRUE, price |-> 0]
        ELSE IF ~confluences[i].description.priced
             THEN [throws |-> FALSE, null |-> TRUE, price |-> 0]
        ELSE [throws |-> FALSE, null |-> FALSE, price |-> confluences[i].description.price]

\* a conversion that returned a string
Returned(str) == [throws |-> FALSE, str |-> str]

Thrown == [throws |-> TRUE, str |-> EmptyStr]

\* convertPipToPrice: basePrice + pipValue / 10 in dollars is price + cents in
\* tenths of a cent; toFixed(2) brings it to cents
convertPipToPrice(pipString, confluences) ==
    IF pipString.kind = "empty" THEN Returned(pipString)
    ELSE IF pipString.kind # "dollar" THEN Returned(pipString)
    ELSE LET basePrice == getLiquidityGrabLevel(confluences)
         IN  IF basePrice.throws THEN Thrown
             ELSE IF basePrice.null \/ basePrice.price = 0 THEN Returned(pipString)
             ELSE Returned(Str("dollar", ToFixed2(basePrice.price + pipString.cents), 2))

\* one row of the Patterns Detected list: icon by type, then the description
ConfluenceRow(confluence) ==
    [icon |-> IF confluence.type = "LIQUIDITY_GRAB" THEN "fire" ELSE "box",
     description |-> confluence.description]

\* setupData.confluences.map((confluence, idx) => ...)
DisplayConfluences(confluences) == [i \in DOMAIN confluences |-> ConfluenceRow(confluences[i])]

\* the Entry Timing block of a step reads entry_timing.early_entry.available and
\* entry_timing.confirmation_entry.type without a guard
StepThrows(step) ==
    /\ step.status = "in_progress"
    /\ step.entry_timing \in {"no early_entry", "no confirmation_entry"}

\* one step of the plan: its icon, and whether its Entry Timing block is drawn
StepRow(step) ==
    [icon |-> IF step.status = "complete" THEN "check" ELSE "hourglass",
     timing |-> step.status = "in_progress" /\ step.entry_timing # "none"]

\* setup_steps.map((step, idx) => ...)
DisplaySteps(steps) == [i \in DOMAIN steps |-> StepRow(steps[i])]

\* entry is what convertPipToPrice(trade_plan.entry_price) gave in this render
NoPlan == [rendered |-> FALSE, crashed |-> FALSE, confluences |-> <<>>, steps |-> <<>>,
           entry |-> Returned(EmptyStr)]

\* an exception thrown while rendering leaves nothing of the page on screen
CrashedPlan(entry) ==
    [rendered |-> TRUE, crashed |-> TRUE, confluences |-> <<>>, steps |-> <<>>, entry |-> entry]

\* one render of the page for a flat position with a trade plan
RenderPlan ==
    /\ ~planShown.rendered
    /\ LET entry == convertPipToPrice(planIn.entry_price, planIn.confluences)
       IN  planShown' =
             IF entry.throws \/ \E i \in DOMAIN planIn.setup_steps : StepThrows(planIn.setup_steps[i])
             THEN CrashedPlan(entry)
             ELSE [rendered |-> TRUE, crashed |-> FALSE,
                   confluences |-> DisplayConfluences(planIn.confluences),
                   steps |-> DisplaySteps(planIn.setup_steps),
                   entry |-> entry]
    /\ UNCHANGED <<proVars, dashVars, alertsIn, alertsShown, cardIn, cardShown, planIn>>

PlanIdle ==
    /\ planIn = [confluences |-> <<>>, setup_steps |-> <<>>, entry_price |-> EmptyStr]
    /\ planShown = NoPlan

(* ---------- specifications ---------- *)
InitPlan ==
    /\ ProIdle /\ DashIdle /\ AlertsIdle /\ CardIdle
    /\ planIn \in Plans
    /\ planShown = NoPlan

NextPlan == RenderPlan

SpecPlan == InitPlan /\ [][NextPlan]_vars

InitAlerts ==
    /\ ProIdle /\ DashIdle /\ CardIdle /\ PlanIdle
    /\ alertsIn \in AlertLists
    /\ alertsShown = NoBoxes

NextAlerts == RenderAlerts

SpecAlerts == InitAlerts /\ [][NextAlerts]_vars

InitCard ==
    /\ ProIdle /\ DashIdle /\ AlertsIdle /\ PlanIdle
    /\ cardIn \in Cards
    /\ cardShown = NoCard

NextCard == RenderCard

SpecCard == InitCard /\ [][NextCard]_vars

InitDash == ProIdle /\ DashInit /\ AlertsIdle /\ CardIdle /\ PlanIdle

NextDash ==
    \/ DashTick
    \/ DashResponse

SpecDash == InitDash /\ [][NextDash]_vars

Init == ProInit /\ DashIdle /\ AlertsIdle /\ CardIdle /\ PlanIdle

Next ==
    \/ Tick
    \/ SetupResponse
    \/ StatusResponse
    \/ ClickRetry
    \/ ClickTrader
    \/ ClickEarlyEntry
    \/ ClickAddMore
    \/ ChangePositionSize
    \/ CancelModal
    \/ ConfirmEntry
    \/ EnterResponse
    \/ ClickExit50
    \/ ClickClose
    \/ ExitResponse

Spec == Init /\ [][Next]_vars

\* the page with its teardown
NextTeardown ==
    \/ Next
    \/ Unmount

SpecTeardown == Init /\ [][NextTeardown]_vars

(* ======================= claims ======================= *)

\* C1: a response of a request dispatched before one whose response was already
\* applied never overwrites the store (trade-status and analysis alike).
C1_StalenessGuard ==
    [][ /\ (lastEvent' = "status_ok_stale" => tradeStatus' = tradeStatus)
        /\ (lastEvent' = "setup_ok_stale" =>
                bullishData' = bullishData /\ bearishData' = bearishData)
      ]_vars

\* C2: at most one fetch per polled source is outstanding in every reachable state.
C2_NoOverlap == Len(setupReqs) <= 1 /\ Len(statusReqs) <= 1

\* C3: an enter-trade request of the add-more dialog leaves only while the mirrored
\* position_size is 50, and a partial-exit request only while it is 100.
C3_GuardedTransitions ==
    \A k \in DOMAIN sent :
        /\ (sent[k].url = "enter-trade" /\ entryFormData.origin = "add") => MirrorSize = 50
        /\ (sent[k].url = "exit-trade" /\ sent[k].info = "Partial profit taking") =>
                MirrorSize = 100

FailedMutationEvents == {"enter_rejected", "enter_error", "exit_rejected", "exit_error"}

\* C4: the step that handles a failed enter-trade or exit-trade (success false, or
\* a thrown fetch) writes nothing to the mirrored TradeStatus and starts no
\* trade-status fetch.
C4_FailedMutationKeepsStatus ==
    [][ lastEvent' \in FailedMutationEvents =>
            /\ tradeStatus' = tradeStatus
            /\ statusReqs' = statusReqs
            /\ sent' = <<>>
      ]_vars

C4_Witness == lastEvent \in FailedMutationEvents /\ inTrade

\* C5: a success=false answer to enter-trade or exit-trade puts an alert with the
\* backend's error text before the operator.
C5_RejectionShown ==
    lastEvent \in {"enter_rejected", "exit_rejected"} =>
        /\ Len(dialog) = 3
        /\ dialog[1] = "alert"
        /\ dialog[3] \in BackendErrors

\* C6: the step that handles a successful enter-trade or exit-trade dispatches a
\* trade-status fetch and writes neither the mirrored TradeStatus nor the setup
\* store; the mirrored TradeStatus changes only in a step that applies a
\* trade-status response.
C6_RefetchAfterSuccess ==
    [][ /\ lastEvent' \in {"enter_ok", "exit_ok"} =>
            /\ sent' = <<Get("trade-status")>>
            /\ Len(statusReqs') = Len(statusReqs) + 1
            /\ tradeStatus' = tradeStatus
            /\ <<setupData, bullishData, bearishData>>' = <<setupData, bullishData, bearishData>>
        /\ tradeStatus' # tradeStatus => lastEvent' \in {"status_ok", "status_ok_stale"}
      ]_vars

C6_Witness ==
    /\ lastEvent \in {"enter_ok", "exit_ok"}
    /\ sent = <<Get("trade-status")>>
    /\ inTrade

C8_CloseSendsWholePosition ==
    \A k \in DOMAIN sent :
        (sent[k].url = "exit-trade" /\ sent[k].info = "Manual exit") =>
            /\ MirrorSize # 0
            /\ sent[k].position_size = MirrorSize

C8_Witness ==
    /\ Len(sent) = 1
    /\ sent[1].url = "exit-trade"
    /\ sent[1].info = "Manual exit"
    /\ sent[1].position_size = 50

\* C9: a failed fetch leaves the value its source stored on the last success in
\* place (here: the dashboard's per-pair score).
C9_FailureKeepsValue ==
    [][ \A q \in dashFailed' :
            (~scores[q].loading /\ scores[q].error = "") => scores'[q] = scores[q]
      ]_vars

\* C10: after a failed fetch of either pro-trader source the displayed error
\* string is non-empty.
C10_FailureRecorded ==
    lastEvent \in {"setup_failed", "status_failed"} => error # ""

\* C11: a failed fetch never stops the schedule: while the page is mounted the
\* interval callback can fire in every state, whatever failures came before
\* (here: whenever the bound on outstanding requests leaves room for its two
\* fetches), and it dispatches both fetches.
C11_ScheduleSurvivesFailure ==
    /\ (mounted /\ Room(2)) => ENABLED Tick
    /\ lastEvent = "tick" => sent = <<Get("analysis"), Get("trade-status")>>

C11_Witness ==
    /\ lastEvent = "tick"
    /\ error \in FetchErrors
    /\ sent = <<Get("analysis"), Get("trade-status")>>

\* C12: after an analysis poll failed, a Setup stored by an earlier successful poll
\* is still on screen (the view is not the failure screen).
C12_StaleButPresent ==
    (lastEvent = "setup_failed" /\ ~setupData.nil) => View = "main"

\* the stores the fetch continuations write
stores == <<setupData, bullishData, bearishData, tradeStatus, error, loading>>

\* C13: after teardown no timer tick dispatches a fetch and no step writes a store.
C13_NothingAfterTeardown ==
    [][ ~mounted => (lastEvent' # "tick" /\ stores' = stores) ]_vars

\* C14: after every successful analysis poll the Setup shown in detail is that
\* poll's payload for the active direction (no setup, if the payload has none).
C14_ShownIsLatestPayload ==
    lastEvent \in {"setup_ok", "setup_ok_stale"} =>
        setupData = (IF selectedTrader = "bullish" THEN bullishData ELSE bearishData)

\* C15: the active direction starts as bullish and changes only in a step in
\* which the operator picks a trader card.
C15_SelectionOnlyByOperator ==
    /\ selectedTrader = "bullish"
    /\ [][ selectedTrader' # selectedTrader => lastEvent' = "select" ]_vars

C15_Witness ==
    /\ selectedTrader = "bearish"
    /\ lastEvent \in {"setup_ok", "setup_failed", "status_ok", "enter_ok", "exit_ok"}

\* C16: whenever the mirrored TradeStatus has in_trade (and the first load is
\* over), the trade-monitoring view is on screen and the selector is not.
C16_InTradeShowsMonitoring ==
    (inTrade /\ ~loading) => (MonitoringVisible /\ ~SelectorVisible)

\* C17: once the first load is over, 'add more' is offered exactly when the
\* mirrored position_size is 50, 'exit 50%' exactly when it is 100, and never
\* both.
C17_ActionsFollowSize ==
    ~loading =>
        /\ AddMoreVisible <=> MirrorSize = 50
        /\ Exit50Visible <=> MirrorSize = 100
        /\ ~(AddMoreVisible /\ Exit50Visible)

\* priority order of the alert boxes: red (HIGH), yellow (MEDIUM), blue (LOW)
BoxRank(box) == IF box.colour = "red" THEN 1 ELSE IF box.colour = "yellow" THEN 2 ELSE 3

\* the alerts of list xs that have priority pr
OfPriority(xs, pr) ==
    LET Has(alert) == alert.priority = pr
    IN  SelectSeq(xs, Has)

\* the boxes of list bs that have the colour of priority pr
OfColour(bs, pr) ==
    LET Has(box) == box.colour = AlertBox([priority |-> pr, title |-> box.title]).colour
    IN  SelectSeq(bs, Has)

\* C18: the alert boxes on screen are the alerts of the payload with every HIGH
\* before every MEDIUM before every LOW, alerts of one priority in payload
\* order, none dropped and none added.
C18_AlertsByPriority ==
    alertsShown.rendered =>
        /\ \A i, j \in DOMAIN alertsShown.boxes :
                i < j => BoxRank(alertsShown.boxes[i]) <= BoxRank(alertsShown.boxes[j])
        /\ \A pr \in AlertPriorities :
                OfColour(alertsShown.boxes, pr) = DisplayAlerts(OfPriority(alertsIn, pr))

C20_NoEntryBelowThreshold ==
    (~setupData.nil /\ setupData.total_score < 5) =>
        /\ ~EarlyEntryVisible
        /\ lastEvent # "open_early"
        /\ \A k \in DOMAIN sent :
                ~(sent[k].url = "enter-trade" /\ entryFormData.origin = "early")

\* the anchor of a confluence list, where one can be read
HasAnchor(confluences) ==
    LET i == FindLiquidityGrab(confluences)
    IN  i # 0 /\ confluences[i].description.present /\ confluences[i].description.priced

AnchorOf(confluences) == confluences[FindLiquidityGrab(confluences)].description.price

\* C21: with an anchor, convertPipToPrice turns the offset "$0.00" into the anchor
\* price to the cent; without an anchor it returns every string unchanged.
C21_RoundTrip ==
    planShown.rendered =>
        /\ (HasAnchor(planIn.confluences) /\ planIn.entry_price = Str("dollar", 0, 2)) =>
                planShown.entry = Returned(Str("dollar", ToFixed2(AnchorOf(planIn.confluences)), 2))
        /\ ~HasAnchor(planIn.confluences) => planShown.entry = Returned(planIn.entry_price)

\* C22: convertPipToPrice returns the absolute price "$4005.50" unchanged, with or
\* without an anchor in the confluence list.
C22_AbsolutePassesThrough ==
    (planShown.rendered /\ ~planShown.entry.throws /\ planIn.entry_price = Str("dollar", 400550, 2)) =>
        planShown.entry = Returned(planIn.entry_price)

\* C24: the confluence rows and the step rows on screen are the payload's
\* confluences and setup_steps, one row each, in the payload's order.
C24_OrderPreserved ==
    planShown.rendered =>
        /\ planShown.confluences = DisplayConfluences(planIn.confluences)
        /\ planShown.steps = DisplaySteps(planIn.setup_steps)

\* C25: no payload with optional fields missing makes the render throw.
C25_NoCrash == ~planShown.crashed

C26_NoBlocking == \A i \in DOMAIN loadReqs : loadReqs[i] = {}

\* C27: form data is present only while the dialog is open.
C27_FormOnlyWhileOpen == ~entryFormData.nil => showEnterTradeModal

\* C27, amended: the form is on screen, and an enter-trade request leaves, only
\* while the dialog is open; cancel and a successful submission close the
\* dialog and leave the form data in the store, a failed submission leaves
\* dialog and form as they were, and every opening replaces the form whole.
C27_FormLifecycle ==
    [][ /\ lastEvent' \in {"cancel", "enter_ok"} =>
                (~showEnterTradeModal' /\ entryFormData' = entryFormData)
        /\ lastEvent' \in {"enter_rejected", "enter_error"} =>
                (showEnterTradeModal' = showEnterTradeModal /\ entryFormData' = entryFormData)
        /\ lastEvent' \in {"open_early", "open_add"} =>
                /\ showEnterTradeModal'
                /\ entryFormData' = [nil |-> FALSE, position_size |-> 50,
                                     origin |-> IF lastEvent' = "open_early" THEN "early" ELSE "add"]
        /\ lastEvent' = "enter_sent" => (showEnterTradeModal /\ ~entryFormData.nil)
        /\ ModalVisible' => showEnterTradeModal'
      ]_vars

C27_Witness ==
    /\ lastEvent = "enter_rejected"
    /\ showEnterTradeModal
    /\ entryFormData.position_size = 100

\* C28: an enter-trade request carries LONG when it is entered from the bullish
\* Setup and SHORT when it is entered from the bearish one.
C28_DirectionMatches ==
    \A k \in DOMAIN sent :
        sent[k].url = "enter-trade" =>
            sent[k].info = (IF setupData.dir = "bearish" THEN "SHORT" ELSE "LONG")

\* C29: at most one enter-trade or exit-trade request is outstanding.
C29_OneMutation == Len(mutReqs) <= 1

\* C30: the error string is empty until an analysis fetch completes; a completed
\* analysis fetch that succeeded leaves it empty and one that failed leaves the
\* failure's message, whatever is still in flight; no other step changes it.
C30_ErrorTracksLastAnalysis ==
    /\ error = ""
    /\ [][ /\ lastEvent' \in {"setup_ok", "setup_ok_stale"} => error' = ""
           /\ lastEvent' = "setup_failed" => error' \in FetchErrors
           /\ lastEvent' \notin {"setup_ok", "setup_ok_stale", "setup_failed"} => error' = error
         ]_vars

C30_Witness ==
    /\ lastEvent = "setup_ok_stale"
    /\ error = ""
    /\ Len(setupReqs) > 0
    /\ ~setupData.nil

====
